---- MODULE Spec2Model ----
(***************************************************************************)
(* Model of the Stripe payment proxy (app.py) and of its connectivity     *)
(* self-test (test_api.py).                                                *)
(*                                                                         *)
(*   Spec      one HTTP request at a time through the Flask routes, each  *)
(*             route calling make_stripe_request at most once             *)
(*   SpecMask  the Authorization-header masking of make_stripe_request    *)
(*   SpecTest  test_stripe_api and the __main__ block of test_api.py      *)
(*   SpecBoot  the __main__ block of app.py                               *)
(***************************************************************************)
EXTENDS Integers, Sequences, FiniteSets, TLC

(***************************************************************************)
(* Bounds of the model.                                                    *)
(***************************************************************************)
MaxCents == 120

MaxKeyLen == 27

MaxInFlight == 2

(***************************************************************************)
(* IEEE-754 binary64 arithmetic, as far as `int(amount * 100)` needs it.   *)
(* A natural wider than 31 bits is a sequence of limbs in base 2^LimbBits, *)
(* least significant limb first, without leading zero limbs (the empty    *)
(* sequence is 0).                                                         *)
(***************************************************************************)
MantissaBits == 53

LimbBits == 20

StepBits == 10

Base == 2 ^ LimbBits

Big(n) == IF n = 0 THEN << >> ELSE << n >>

RECURSIVE TrimTo(_, _)
TrimTo(b, n) ==
    IF n = 0 THEN << >>
    ELSE IF b[n] = 0 THEN TrimTo(b, n - 1)
    ELSE SubSeq(b, 1, n)

Trim(b) == TrimTo(b, Len(b))

\* b * d + carry for small d and carry, limb by limb.
RECURSIVE MulSmallCarry(_, _, _, _)
MulSmallCarry(b, d, i, carry) ==
    IF i > Len(b) THEN Big(carry)
    ELSE LET t == b[i] * d + carry
         IN  << t % Base >> \o MulSmallCarry(b, d, i + 1, t \div Base)

MulSmall(b, d) == Trim(MulSmallCarry(b, d, 1, 0))

AddOne(b) == Trim(MulSmallCarry(b, 1, 1, 1))

\* b divided by a small divisor d, by long division from the top limb:
\* the quotient and the remainder.
RECURSIVE DivSmallFrom(_, _, _)
DivSmallFrom(b, d, i) ==
    IF i > Len(b) THEN [q |-> << >>, r |-> 0]
    ELSE LET hi == DivSmallFrom(b, d, i + 1)
             t  == hi.r * Base + b[i]
         IN  [q |-> << t \div d >> \o hi.q, r |-> t % d]

DivSmall(b, d) ==
    LET res == DivSmallFrom(b, d, 1) IN [q |-> Trim(res.q), r |-> res.r]

RECURSIVE ShiftLeft(_, _)
ShiftLeft(b, k) ==
    IF k = 0 THEN b
    ELSE IF k >= StepBits THEN ShiftLeft(MulSmall(b, 2 ^ StepBits), k - StepBits)
    ELSE MulSmall(b, 2 ^ k)

RECURSIVE ShiftRight(_, _)
ShiftRight(b, k) ==
    IF k = 0 THEN b
    ELSE IF k >= StepBits
         THEN ShiftRight(DivSmall(b, 2 ^ StepBits).q, k - StepBits)
    ELSE DivSmall(b, 2 ^ k).q

RECURSIVE SmallBitLen(_)
SmallBitLen(n) == IF n = 0 THEN 0 ELSE 1 + SmallBitLen(n \div 2)

BitLen(b) ==
    IF b = << >> THEN 0
    ELSE (Len(b) - 1) * LimbBits + SmallBitLen(b[Len(b)])

IsOdd(b) == b # << >> /\ b[1] % 2 = 1

\* b / 2^s rounded to the nearest integer, ties to even.
RoundShift(b, s) ==
    IF s = 0 THEN b
    ELSE LET q2   == ShiftRight(b, s - 1)
             half == IsOdd(q2)
             low  == ShiftLeft(q2, s - 1) # b
             q    == ShiftRight(q2, 1)
         IN  IF half /\ (low \/ IsOdd(q)) THEN AddOne(q) ELSE q

\* int of a natural that fits in 31 bits (at most two limbs).
ToInt(b) ==
    IF b = << >> THEN 0
    ELSE IF Len(b) = 1 THEN b[1]
    ELSE b[1] + Base * b[2]

\* A positive binary64 value is m / 2^sh, m of at most MantissaBits bits.
\* ParseDecimal: the binary64 nearest to the decimal literal cents/100, as
\* the JSON parser produces it.
ParseDecimal(cents) ==
    LET wide == MantissaBits + 7
        q0   == DivSmall(ShiftLeft(Big(cents), wide), 100).q
        sh   == wide - (BitLen(q0) - MantissaBits)
        d    == DivSmall(ShiftLeft(Big(cents), sh), 100)
        up   == 2 * d.r > 100 \/ (2 * d.r = 100 /\ IsOdd(d.q))
    IN  [m |-> IF up THEN AddOne(d.q) ELSE d.q, sh |-> sh]

\* x * k in binary64 for a small integer k: the exact product rounded to
\* MantissaBits bits, ties to even.
FloatMul(x, k) ==
    LET p == MulSmall(x.m, k)
        s == IF BitLen(p) > MantissaBits THEN BitLen(p) - MantissaBits ELSE 0
    IN  [m |-> RoundShift(p, s), sh |-> x.sh - s]

\* int(x): truncation toward zero.
FloatToInt(x) ==
    IF x.sh >= 0 THEN ToInt(ShiftRight(x.m, x.sh))
    ELSE ToInt(ShiftLeft(x.m, 0 - x.sh))

\* round(x): nearest integer, ties to even.
FloatRound(x) ==
    IF x.sh >= 0 THEN ToInt(RoundShift(x.m, x.sh))
    ELSE ToInt(ShiftLeft(x.m, 0 - x.sh))

(***************************************************************************)
(* JSON values as the handlers see them.  A value is one record shape for *)
(* every kind: k is the kind, n the number (amounts: in hundredths of the *)
(* major unit, so the literal 19.99 is n = 1999), s the string.           *)
(***************************************************************************)
Absent == [k |-> "absent", n |-> 0, s |-> ""]

Null == [k |-> "null", n |-> 0, s |-> ""]

Str(s) == [k |-> "str", n |-> 0, s |-> s]

Num(c) == [k |-> "num", n |-> c, s |-> ""]

IntVal(i) == [k |-> "int", n |-> i, s |-> ""]

\* dict.get(key): a missing key reads as None.
Get(v) == IF v = Absent THEN Null ELSE v

\* dict.get(key, default)
GetDefault(v, default) == IF v = Absent THEN default ELSE v

\* Python truth value of a JSON value.
Truthy(v) ==
    \/ v.k = "str" /\ v.s # ""
    \/ v.k \in {"num", "int"} /\ v.n # 0

EmptyData == << >>

(***************************************************************************)
(* The gateway's behaviour on one call.  kind "http" is a response with a *)
(* status and a body; "neterr" is a requests.exceptions.RequestException; *)
(* "othererr" any other exception raised by the call.  A body is JSON of  *)
(* type json ("text" when it does not parse); for an object, err is the   *)
(* type of its "error" member, msg the "message" member of that, and full *)
(* says whether the members of the requested resource are all present.    *)
(***************************************************************************)
Body(json, err, msg, full) ==
    [json |-> json, err |-> err, msg |-> msg, full |-> full]

NoBody == Body("none", "absent", Absent, FALSE)

DeclinedMessage == "Your card was declined."

DeclinedBody == Body("object", "object", Str(DeclinedMessage), FALSE)

GatewayBodies ==
    { Body("object", "absent", Absent, TRUE),
      Body("object", "absent", Absent, FALSE),
      DeclinedBody,
      Body("object", "object", Absent, FALSE),
      Body("object", "object", Null, FALSE),
      Body("object", "object", Str(""), FALSE),
      Body("object", "string", Absent, FALSE),
      Body("array", "absent", Absent, FALSE),
      Body("text", "absent", Absent, FALSE) }

GatewayStatuses == {200, 402, 403}

Reply(kind, status, body) == [kind |-> kind, status |-> status, body |-> body]

NoReply == Reply("none", 0, NoBody)

GatewayReplies ==
    { Reply("http", st, b) : st \in GatewayStatuses, b \in GatewayBodies }
    \cup { Reply("neterr", 0, NoBody), Reply("othererr", 0, NoBody) }

(***************************************************************************)
(* make_stripe_request(method, endpoint, data): the outcome                *)
(* (response_data, status_code, error_message) and whether the network    *)
(* was reached.  response_data None is NoBody, error_message None is Null.*)
(***************************************************************************)
Outcome(data, status, error, sent) ==
    [data |-> data, status |-> status, error |-> error, sent |-> sent]

Upper(method) ==
    IF method \in {"get", "Get", "GET"} THEN "GET"
    ELSE IF method \in {"post", "Post", "POST"} THEN "POST"
    ELSE method

\* response.json(), with the fallback {"raw_response": response.text}
ParsedBody(body) ==
    IF body.json = "text" THEN Body("object", "absent", Absent, FALSE) ELSE body

\* response_data.get('error', {}).get('message', 'Unknown error'):
\* "raise" when a .get is applied to something that is not a dict.
ErrorMessage(data) ==
    IF data.json # "object" THEN [raise |-> TRUE, msg |-> Null]
    ELSE IF data.err = "absent" THEN [raise |-> FALSE, msg |-> Str("Unknown error")]
    ELSE IF data.err # "object" THEN [raise |-> TRUE, msg |-> Null]
    ELSE [raise |-> FALSE, msg |-> Get(GetDefault(data.msg, Str("Unknown error")))]

make_stripe_request(method, endpoint, data, reply) ==
    IF Upper(method) \notin {"GET", "POST"}
    THEN Outcome(NoBody, 400, Str("Unsupported HTTP method: " \o method), FALSE)
    ELSE IF reply.kind = "neterr"
    THEN Outcome(NoBody, 500, Str("Request failed: connection refused"), TRUE)
    ELSE IF reply.kind = "othererr"
    THEN Outcome(NoBody, 500, Str("Unexpected error: failure"), TRUE)
    ELSE LET response_data == ParsedBody(reply.body)
             em == ErrorMessage(response_data)
         IN  IF reply.status >= 400
             THEN IF em.raise
                  THEN Outcome(NoBody, 500, Str("Unexpected error: failure"), TRUE)
                  ELSE Outcome(NoBody, reply.status, em.msg, TRUE)
             ELSE Outcome(response_data, reply.status, Null, TRUE)

(***************************************************************************)
(* HTTP requests and responses of the Flask application.                   *)
(* A request body is what request.get_json() returns: obj is FALSE when   *)
(* it is not a JSON object; a member that is not sent is Absent.  For the *)
(* GET routes id is the path parameter or the session_id query argument.  *)
(***************************************************************************)
JsonBody(amount, currency, payment_intent_id, payment_method, email, name) ==
    [obj |-> TRUE, amount |-> amount, currency |-> currency,
     payment_intent_id |-> payment_intent_id, payment_method |-> payment_method,
     email |-> email, name |-> name, id |-> Absent]

NotAnObject ==
    [obj |-> FALSE, amount |-> Absent, currency |-> Absent,
     payment_intent_id |-> Absent, payment_method |-> Absent,
     email |-> Absent, name |-> Absent, id |-> Absent]

NoBodySent == [JsonBody(Absent, Absent, Absent, Absent, Absent, Absent)
                  EXCEPT !.obj = FALSE]

WithId(id) == [NoBodySent EXCEPT !.id = id]

\* An HTTP response: the status and the body.  shape "error" is the JSON
\* object {error: msg}; "api_status" is {status: tag, message: msg,
\* status_code: code}; "result" the JSON object a route builds from the
\* gateway's data; "raw" the gateway's data itself; "page" a rendered
\* template named tag (payment_id: msg); "crash" the server's answer to an
\* exception that leaves the view function.
Response(status, shape, tag, msg, code) ==
    [status |-> status, shape |-> shape, tag |-> tag, msg |-> msg, code |-> code]

NoResponse == Response(0, "none", "", Null, 0)

JsonError(msg, status) == Response(status, "error", "", msg, 0)

JsonResult(tag) == Response(200, "result", tag, Null, 0)

JsonRaw == Response(200, "raw", "", Null, 0)

Page(tag, payment_id) == Response(200, "page", tag, payment_id, 0)

Crash == Response(500, "crash", "", Null, 0)

\* the `except Exception` clause of the JSON routes
AnErrorOccurred == JsonError(Str("An error occurred"), 500)

\* One invocation of make_stripe_request.
Call(method, endpoint, data, out) ==
    [method |-> method, endpoint |-> endpoint, data |-> data, sent |-> out.sent]

\* What a view function did: its response and its gateway invocations.
Done(response, invocations) == [resp |-> response, calls |-> invocations]

url_root == "http://localhost:5500/"

\* A variant of AmountCheck that tests `amount is None or amount < 0`.
AmountCheckNegativeOnly(amount) ==
    IF amount.k = "null" THEN "invalid"
    ELSE IF amount.k \notin {"num", "int"} THEN "raise"
    ELSE IF amount.n < 0 THEN "invalid"
    ELSE "ok"

\* `if not amount or amount <= 0`: "raise" when the comparison of a
\* non-number with 0 raises TypeError.
AmountCheck(amount) ==
    IF ~Truthy(amount) THEN "invalid"
    ELSE IF amount.k \notin {"num", "int"} THEN "raise"
    ELSE IF amount.n <= 0 THEN "invalid"
    ELSE "ok"

\* int(amount * 100) for a positive amount of n hundredths.
ToMinorUnits(amount) == FloatToInt(FloatMul(ParseDecimal(amount.n), 100))

\* response_data[key] for the keys a route reads: raises unless the data
\* is an object that has them.
HasMembers(data) == data.json = "object" /\ data.full

CheckoutSessionData(amount, currency) ==
    [ k \in { "payment_method_types[0]", "payment_method_types[1]",
              "payment_method_types[2]",
              "payment_method_options[wechat_pay][client]",
              "line_items[0][price_data][currency]",
              "line_items[0][price_data][product_data][name]",
              "line_items[0][price_data][unit_amount]",
              "line_items[0][quantity]", "mode", "success_url",
              "cancel_url", "metadata[integration_check]" } |->
        CASE k = "payment_method_types[0]" -> Str("card")
          [] k = "payment_method_types[1]" -> Str("alipay")
          [] k = "payment_method_types[2]" -> Str("wechat_pay")
          [] k = "payment_method_options[wechat_pay][client]" -> Str("web")
          [] k = "line_items[0][price_data][currency]" -> currency
          [] k = "line_items[0][price_data][product_data][name]" -> Str("Payment")
          [] k = "line_items[0][price_data][unit_amount]" ->
                 IntVal(ToMinorUnits(amount))
          [] k = "line_items[0][quantity]" -> Str("1")
          [] k = "mode" -> Str("payment")
          [] k = "success_url" ->
                 Str(url_root \o "payment-success?session_id={CHECKOUT_SESSION_ID}")
          [] k = "cancel_url" -> Str(url_root \o "payment-cancel")
          [] k = "metadata[integration_check]" -> Str("accept_a_payment") ]

PaymentIntentData(amount, currency) ==
    [ k \in { "amount", "currency", "automatic_payment_methods[enabled]",
              "automatic_payment_methods[allow_redirects]",
              "metadata[integration_check]" } |->
        CASE k = "amount" -> IntVal(ToMinorUnits(amount))
          [] k = "currency" -> currency
          [] k = "automatic_payment_methods[enabled]" -> Str("true")
          [] k = "automatic_payment_methods[allow_redirects]" -> Str("always")
          [] k = "metadata[integration_check]" -> Str("accept_a_payment") ]

\* The part every JSON route shares after its gateway call: `if error`
\* answers the error with the helper's status, else the route builds its
\* result from response_data (needsMembers: it reads members by key).
AfterCall(out, call, result, needsMembers) ==
    IF Truthy(out.error) THEN Done(JsonError(out.error, out.status), << call >>)
    ELSE IF needsMembers /\ ~HasMembers(out.data)
    THEN Done(AnErrorOccurred, << call >>)
    ELSE Done(result, << call >>)

create_checkout_session(body, reply) ==
    IF ~body.obj THEN Done(AnErrorOccurred, << >>)
    ELSE LET amount   == Get(body.amount)
             currency == GetDefault(body.currency, Str("usd"))
             check    == AmountCheck(amount)
         IN  IF check = "invalid"
             THEN Done(JsonError(Str("Invalid amount"), 400), << >>)
             ELSE IF check = "raise" THEN Done(AnErrorOccurred, << >>)
             ELSE LET stripe_data == CheckoutSessionData(amount, currency)
                      endpoint == << "checkout", "sessions" >>
                      out == make_stripe_request("POST", endpoint, stripe_data, reply)
                  IN  AfterCall(out, Call("POST", endpoint, stripe_data, out),
                                JsonResult("checkout_session"), TRUE)

create_payment_intent(body, reply) ==
    IF ~body.obj THEN Done(AnErrorOccurred, << >>)
    ELSE LET amount   == Get(body.amount)
             currency == GetDefault(body.currency, Str("usd"))
             check    == AmountCheck(amount)
         IN  IF check = "invalid"
             THEN Done(JsonError(Str("Invalid amount"), 400), << >>)
             ELSE IF check = "raise" THEN Done(AnErrorOccurred, << >>)
             ELSE LET stripe_data == PaymentIntentData(amount, currency)
                      endpoint == << "payment_intents" >>
                      out == make_stripe_request("POST", endpoint, stripe_data, reply)
                  IN  AfterCall(out, Call("POST", endpoint, stripe_data, out),
                                JsonResult("payment_intent"), TRUE)

\* f"{value}" for the values that reach an endpoint path.
Format(v) == IF v.k = "null" THEN "None" ELSE v.s

\* A variant of MissingUpdateFields that rejects only when both are missing.
MissingBothUpdateFields(payment_intent_id, payment_method) ==
    ~Truthy(payment_intent_id) /\ ~Truthy(payment_method)

\* `if not payment_intent_id or not payment_method`
MissingUpdateFields(payment_intent_id, payment_method) ==
    ~Truthy(payment_intent_id) \/ ~Truthy(payment_method)

update_payment_intent(body, reply) ==
    IF ~body.obj THEN Done(AnErrorOccurred, << >>)
    ELSE LET payment_intent_id == Get(body.payment_intent_id)
             payment_method    == Get(body.payment_method)
         IN  IF MissingUpdateFields(payment_intent_id, payment_method)
             THEN Done(JsonError(Str("Payment intent ID and payment method required"),
                                 400), << >>)
             ELSE LET stripe_data == [k \in {"payment_method"} |-> payment_method]
                      endpoint == << "payment_intents", Format(payment_intent_id) >>
                      out == make_stripe_request("POST", endpoint, stripe_data, reply)
                  IN  AfterCall(out, Call("POST", endpoint, stripe_data, out),
                                JsonResult("payment_intent_view"), TRUE)

\* A variant of ConfirmData that always sets the payment_method key.
ConfirmDataAlways(payment_method_data) ==
    [k \in {"payment_method"} |-> payment_method_data]

\* stripe_data = {}; if payment_method_data: stripe_data['payment_method'] = ...
ConfirmData(payment_method_data) ==
    IF Truthy(payment_method_data)
    THEN [k \in {"payment_method"} |-> payment_method_data]
    ELSE EmptyData

confirm_payment(body, reply) ==
    IF ~body.obj THEN Done(AnErrorOccurred, << >>)
    ELSE LET payment_intent_id   == Get(body.payment_intent_id)
             payment_method_data == Get(body.payment_method)
         IN  IF ~Truthy(payment_intent_id)
             THEN Done(JsonError(Str("Payment intent ID required"), 400), << >>)
             ELSE LET stripe_data == ConfirmData(payment_method_data)
                      endpoint == << "payment_intents", Format(payment_intent_id),
                                     "confirm" >>
                      out == make_stripe_request("POST", endpoint, stripe_data, reply)
                  IN  AfterCall(out, Call("POST", endpoint, stripe_data, out),
                                JsonResult("payment_intent_view"), TRUE)

\* stripe_data = {'email': email}; if name: stripe_data['name'] = name
CustomerData(email, name) ==
    IF Truthy(name)
    THEN [k \in {"email", "name"} |-> IF k = "email" THEN email ELSE name]
    ELSE [k \in {"email"} |-> email]

create_customer(body, reply) ==
    IF ~body.obj THEN Done(AnErrorOccurred, << >>)
    ELSE LET email == Get(body.email)
             name  == Get(body.name)
         IN  IF ~Truthy(email)
             THEN Done(JsonError(Str("Email is required"), 400), << >>)
             ELSE LET stripe_data == CustomerData(email, name)
                      endpoint == << "customers" >>
                      out == make_stripe_request("POST", endpoint, stripe_data, reply)
                  IN  AfterCall(out, Call("POST", endpoint, stripe_data, out),
                                JsonResult("customer"), TRUE)

retrieve_payment_intent(body, reply) ==
    LET endpoint == << "payment_intents", Format(body.id) >>
        out == make_stripe_request("GET", endpoint, EmptyData, reply)
    IN  AfterCall(out, Call("GET", endpoint, EmptyData, out), JsonRaw, FALSE)

list_payment_intents(body, reply) ==
    LET endpoint == << "payment_intents?limit=10" >>
        out == make_stripe_request("GET", endpoint, EmptyData, reply)
    IN  AfterCall(out, Call("GET", endpoint, EmptyData, out), JsonRaw, FALSE)

list_customers(body, reply) ==
    LET endpoint == << "customers?limit=10" >>
        out == make_stripe_request("GET", endpoint, EmptyData, reply)
    IN  AfterCall(out, Call("GET", endpoint, EmptyData, out), JsonRaw, FALSE)

\* No try block: response_data["payment_intent"] is read for printing before
\* `if error` is looked at, and an exception there leaves the view function.
payment_success(body, reply) ==
    LET session_id == Get(body.id)
        endpoint == << "checkout", "sessions", Format(session_id) >>
        out  == make_stripe_request("GET", endpoint, EmptyData, reply)
        call == Call("GET", endpoint, EmptyData, out)
    IN  IF ~HasMembers(out.data) THEN Done(Crash, << call >>)
        ELSE IF Truthy(out.error)
        THEN Done(JsonError(out.error, out.status), << call >>)
        ELSE Done(Page("success.html", Str("pi_123")), << call >>)

api_status(body, reply) ==
    LET endpoint == << "customers?limit=1" >>
        out  == make_stripe_request("GET", endpoint, EmptyData, reply)
        call == Call("GET", endpoint, EmptyData, out)
    IN  IF Truthy(out.error)
        THEN Done(Response(out.status, "api_status", "error", out.error,
                           out.status), << call >>)
        ELSE Done(Response(200, "api_status", "success",
                           Str("Stripe API connection successful"), out.status),
                  << call >>)

index(body, reply) == Done(Page("index.html", Null), << >>)

checkout(body, reply) == Done(Page("checkout.html", Null), << >>)

payment_cancel(body, reply) == Done(Page("cancel.html", Null), << >>)

(***************************************************************************)
(* The state: of the server (pc .. resp), of the header logging           *)
(* (mpc .. otherLogged), of the self-test (tpc .. texit) and of the       *)
(* server's start (bpc .. raised), of a direct call of the helper         *)
(* (hpc .. hout) and of the requests in flight together (cpc .. cresp).   *)
(* Each part is described where its actions are defined.                   *)
(***************************************************************************)
VARIABLES pc, req, gw, calls, resp,
          mpc, key, otherKey, logged, otherLogged,
          tpc, tkey, tsteps, treplies, tsuccess, texit,
          bpc, env, run, raised,
          hpc, hmethod, hendpoint, hdata, hreply, hout,
          cpc, creq, ctx, cgw, ccalls, cresp

server == << pc, req, gw, calls, resp >>

mask == << mpc, key, otherKey, logged, otherLogged >>

test == << tpc, tkey, tsteps, treplies, tsuccess, texit >>

boot == << bpc, env, run, raised >>

helper == << hpc, hmethod, hendpoint, hdata, hreply, hout >>

conc == << cpc, creq, ctx, cgw, ccalls, cresp >>

(***************************************************************************)
(* The server: one request at a time.  pc is "idle" between requests,     *)
(* "received" when Flask has routed a request to its view function and    *)
(* "responded" when the view function has returned.                       *)
(***************************************************************************)
ExampleCents == {1999, 2500}

AmountValues ==
    {Absent, Null, Str("abc")}
    \cup { Num(c) : c \in ((0 - 2) .. MaxCents) \cup ExampleCents }

TextValues(text) == {Absent, Null, Str(""), Str(text)}

JsonRoutes ==
    { "/create-checkout-session", "/create-payment-intent",
      "/update-payment-intent", "/confirm-payment", "/create-customer" }

GatewayRoutes ==
    JsonRoutes \cup { "/retrieve-payment-intent", "/list-payment-intents",
                      "/list-customers", "/payment-success", "/api-status" }

Routes == GatewayRoutes \cup { "/", "/checkout", "/payment-cancel" }

Bodies(route) ==
    CASE route \in {"/create-checkout-session", "/create-payment-intent"} ->
           {NotAnObject}
           \cup { JsonBody(a, c, Absent, Absent, Absent, Absent) :
                    a \in AmountValues, c \in {Absent, Str("eur")} }
      [] route \in {"/update-payment-intent", "/confirm-payment"} ->
           {NotAnObject}
           \cup { JsonBody(Absent, Absent, id, pm, Absent, Absent) :
                    id \in TextValues("pi_123"), pm \in TextValues("pm_card_visa") }
      [] route = "/create-customer" ->
           {NotAnObject}
           \cup { JsonBody(Absent, Absent, Absent, Absent, email, name) :
                    email \in TextValues("test@example.com"),
                    name \in TextValues("Test Customer") }
      [] route = "/retrieve-payment-intent" -> { WithId(Str("pi_123")) }
      [] route = "/payment-success" -> { WithId(Absent), WithId(Str("cs_test_1")) }
      [] OTHER -> { NoBodySent }

Request(route, body) == [route |-> route, body |-> body]

NoRequest == Request("", NoBodySent)

ServerInit ==
    /\ pc = "idle"
    /\ req = NoRequest
    /\ gw = NoReply
    /\ calls = << >>
    /\ resp = NoResponse

\* Flask routes an incoming request to its view function.
Receive ==
    /\ pc = "idle"
    /\ \E route \in Routes : \E body \in Bodies(route) :
           req' = Request(route, body)
    /\ pc' = "received"
    /\ UNCHANGED << gw, calls, resp, mask, test, boot, helper, conc >>

\* The request at hand is for this route.
Routed(route) == pc = "received" /\ req.route = route

\* A view function returns: its response and its gateway invocations are
\* recorded, with the reply the gateway gave if it was invoked.
Return(done, reply) ==
    /\ resp' = done.resp
    /\ calls' = done.calls
    /\ gw' = IF Len(done.calls) = 0 THEN NoReply ELSE reply
    /\ pc' = "responded"
    /\ UNCHANGED << req, mask, test, boot, helper, conc >>

\* One action per route: the view function runs to its return, the gateway
\* answering its call (if it makes one) with some reply.
Index ==
    /\ Routed("/")
    /\ \E reply \in GatewayReplies : Return(index(req.body, reply), reply)

Checkout ==
    /\ Routed("/checkout")
    /\ \E reply \in GatewayReplies : Return(checkout(req.body, reply), reply)

CreateCheckoutSession ==
    /\ Routed("/create-checkout-session")
    /\ \E reply \in GatewayReplies : Return(create_checkout_session(req.body, reply), reply)

CreatePaymentIntent ==
    /\ Routed("/create-payment-intent")
    /\ \E reply \in GatewayReplies : Return(create_payment_intent(req.body, reply), reply)

UpdatePaymentIntent ==
    /\ Routed("/update-payment-intent")
    /\ \E reply \in GatewayReplies : Return(update_payment_intent(req.body, reply), reply)

ConfirmPayment ==
    /\ Routed("/confirm-payment")
    /\ \E reply \in GatewayReplies : Return(confirm_payment(req.body, reply), reply)

CreateCustomer ==
    /\ Routed("/create-customer")
    /\ \E reply \in GatewayReplies : Return(create_customer(req.body, reply), reply)

RetrievePaymentIntent ==
    /\ Routed("/retrieve-payment-intent")
    /\ \E reply \in GatewayReplies : Return(retrieve_payment_intent(req.body, reply), reply)

ListPaymentIntents ==
    /\ Routed("/list-payment-intents")
    /\ \E reply \in GatewayReplies : Return(list_payment_intents(req.body, reply), reply)

ListCustomers ==
    /\ Routed("/list-customers")
    /\ \E reply \in GatewayReplies : Return(list_customers(req.body, reply), reply)

PaymentSuccess ==
    /\ Routed("/payment-success")
    /\ \E reply \in GatewayReplies : Return(payment_success(req.body, reply), reply)

PaymentCancel ==
    /\ Routed("/payment-cancel")
    /\ \E reply \in GatewayReplies : Return(payment_cancel(req.body, reply), reply)

ApiStatus ==
    /\ Routed("/api-status")
    /\ \E reply \in GatewayReplies : Return(api_status(req.body, reply), reply)

\* The response is sent; nothing of the request is kept.
Finish ==
    /\ pc = "responded"
    /\ pc' = "idle"
    /\ req' = NoRequest
    /\ gw' = NoReply
    /\ calls' = << >>
    /\ resp' = NoResponse
    /\ UNCHANGED << mask, test, boot, helper, conc >>

ServerNext ==
    \/ Receive
    \/ Index
    \/ Checkout
    \/ CreateCheckoutSession
    \/ CreatePaymentIntent
    \/ UpdatePaymentIntent
    \/ ConfirmPayment
    \/ CreateCustomer
    \/ RetrievePaymentIntent
    \/ ListPaymentIntents
    \/ ListCustomers
    \/ PaymentSuccess
    \/ PaymentCancel
    \/ ApiStatus
    \/ Finish

(***************************************************************************)
(* The header logging of make_stripe_request.  Text is a sequence of      *)
(* characters.  Two processes are configured with the secret keys key and *)
(* otherKey; logged and otherLogged are the Authorization lines they      *)
(* print for a call.                                                       *)
(***************************************************************************)
MaskHead == 20

MaskTail == 4

MaskMinLen == 24

\* text[:n]
Prefix(text, n) == SubSeq(text, 1, IF n < Len(text) THEN n ELSE Len(text))

\* text[-n:]
Suffix(text, n) ==
    SubSeq(text, IF n < Len(text) THEN Len(text) - n + 1 ELSE 1, Len(text))

Bearer == << "B", "e", "a", "r", "e", "r", " " >>

Dots == << ".", ".", "." >>

Stars == << "*", "*", "*" >>

\* f'Bearer {STRIPE_SECRET_KEY}'
AuthorizationValue(secret) == Bearer \o secret

\* A variant of MaskedValue that keeps one more character of the key.
MaskedValueWide(value) ==
    IF Len(value) > MaskMinLen
    THEN Prefix(value, MaskHead + Len(Bearer) + 1) \o Dots \o Suffix(value, MaskTail)
    ELSE Stars

\* value[:20] + "..." + value[-4:] if len(value) > 24 else "***"
MaskedValue(value) ==
    IF Len(value) > MaskMinLen
    THEN Prefix(value, MaskHead) \o Dots \o Suffix(value, MaskTail)
    ELSE Stars

AuthorizationLabel ==
    << " ", " ", " ", "A", "u", "t", "h", "o", "r", "i", "z", "a", "t", "i",
       "o", "n", ":", " " >>

\* print(f"   {key}: {masked_key}") for the Authorization header
LoggedAuthorization(secret) ==
    AuthorizationLabel \o MaskedValue(AuthorizationValue(secret))

\* The keys of the model: n characters "a", the one at place d (if any) "b".
KeyOf(n, d) == [i \in 1 .. n |-> IF i = d THEN "b" ELSE "a"]

Keys == { KeyOf(n, d) : n \in 0 .. MaxKeyLen, d \in 0 .. MaxKeyLen }

MaskIdle ==
    /\ mpc = "off"
    /\ key = << >>
    /\ otherKey = << >>
    /\ logged = << >>
    /\ otherLogged = << >>

MaskInit ==
    /\ mpc = "configured"
    /\ key \in Keys
    /\ otherKey \in Keys
    /\ logged = << >>
    /\ otherLogged = << >>

\* make_stripe_request prints the headers of a call, in each process.
LogHeaders ==
    /\ mpc = "configured"
    /\ logged' = LoggedAuthorization(key)
    /\ otherLogged' = LoggedAuthorization(otherKey)
    /\ mpc' = "logged"
    /\ UNCHANGED << key, otherKey, server, test, boot, helper, conc >>

(***************************************************************************)
(* The self-test, test_api.py.  tpc is the place in the script, tkey the  *)
(* configured STRIPE_SECRET_KEY, tsteps the network steps attempted so    *)
(* far and treplies what the gateway answered to each, tsuccess the       *)
(* value test_stripe_api returned and texit the exit status (-1 while the *)
(* script runs).                                                           *)
(***************************************************************************)
TestSteps ==
    << "list-customers", "create-customer", "create-payment-intent",
       "retrieve-payment-intent" >>

TestKeys == {Null, Str(""), Str("sk_test_51abc")}

\* A variant of StepPasses that does not look at the status code.
StepPassesAnyStatus(step, reply) ==
    /\ reply.kind = "http"
    /\ reply.body.json = "object"
    /\ step = "list-customers" \/ reply.body.full

\* The try block of a step runs to its end: the call returns, the status
\* is 200, and response.json() and the reading of the members the step
\* prints do not raise.
StepPasses(step, reply) ==
    /\ reply.kind = "http"
    /\ reply.status = 200
    /\ reply.body.json = "object"
    /\ step = "list-customers" \/ reply.body.full

\* A variant of ExitStatus that forgets exit(1).
ExitStatusZero(success) == 0

\* `if not success: exit(1)`, else the script runs off its end.
ExitStatus(success) == IF success THEN 0 ELSE 1

TestIdle ==
    /\ tpc = "off"
    /\ tkey = Null
    /\ tsteps = << >>
    /\ treplies = << >>
    /\ tsuccess = FALSE
    /\ texit = 0 - 1

TestInit ==
    /\ tpc = "start"
    /\ tkey \in TestKeys
    /\ tsteps = << >>
    /\ treplies = << >>
    /\ tsuccess = FALSE
    /\ texit = 0 - 1

\* os.getenv('STRIPE_SECRET_KEY'); `if not stripe_secret_key: return False`
LoadKey ==
    /\ tpc = "start"
    /\ IF Truthy(tkey)
       THEN tpc' = TestSteps[1] /\ UNCHANGED tsuccess
       ELSE tpc' = "returned" /\ tsuccess' = FALSE
    /\ UNCHANGED << tkey, tsteps, treplies, texit, server, mask, boot, helper, conc >>

\* One network step: the request is made, and the step either runs to the
\* end of its try block or returns False.
StepDone(k, reply) ==
    /\ tsteps' = Append(tsteps, TestSteps[k])
    /\ treplies' = Append(treplies, reply)
    /\ IF StepPasses(TestSteps[k], reply)
       THEN IF k < Len(TestSteps)
            THEN tpc' = TestSteps[k + 1] /\ UNCHANGED tsuccess
            ELSE tpc' = "returned" /\ tsuccess' = TRUE
       ELSE tpc' = "returned" /\ tsuccess' = FALSE
    /\ UNCHANGED << tkey, texit, server, mask, boot, helper, conc >>

TestListCustomers ==
    /\ tpc = "list-customers"
    /\ \E reply \in GatewayReplies : StepDone(1, reply)

TestCreateCustomer ==
    /\ tpc = "create-customer"
    /\ \E reply \in GatewayReplies : StepDone(2, reply)

TestCreatePaymentIntent ==
    /\ tpc = "create-payment-intent"
    /\ \E reply \in GatewayReplies : StepDone(3, reply)

TestRetrievePaymentIntent ==
    /\ tpc = "retrieve-payment-intent"
    /\ \E reply \in GatewayReplies : StepDone(4, reply)

\* the __main__ block after test_stripe_api has returned
TestExit ==
    /\ tpc = "returned"
    /\ texit' = ExitStatus(tsuccess)
    /\ tpc' = "exited"
    /\ UNCHANGED << tkey, tsteps, treplies, tsuccess, server, mask, boot, helper, conc >>

(***************************************************************************)
(* The __main__ block of app.py.  env is the environment and the file     *)
(* system as the block reads them: a variable that is not set is Null,    *)
(* certExists and keyExists say whether the file at the configured (or    *)
(* default) path exists.  bpc is "start", then "listening" with run the   *)
(* arguments of the app.run call made, or "aborted" with raised the       *)
(* exception that ended the process.                                       *)
(***************************************************************************)
DefaultPort == 5500

Environments ==
    [ HTTPS_ENABLED : {Null, Str("true"), Str("True"), Str("false")},
      SSL_CERT_PATH : {Null, Str("/etc/tls/server.crt")},
      SSL_KEY_PATH  : {Null, Str("/etc/tls/server.key")},
      certExists    : BOOLEAN,
      keyExists     : BOOLEAN,
      HOST          : {Null, Str("127.0.0.1")},
      PORT          : {Null, Str("8080"), Str("http")},
      FLASK_ENV     : {Null, Str("production"), Str("development")} ]

NoEnvironment ==
    [ HTTPS_ENABLED |-> Null, SSL_CERT_PATH |-> Null, SSL_KEY_PATH |-> Null,
      certExists |-> FALSE, keyExists |-> FALSE, HOST |-> Null, PORT |-> Null,
      FLASK_ENV |-> Null ]

\* os.getenv(name, default)
Getenv(value, default) == IF value = Null THEN default ELSE value

\* str.lower() on the values of HTTPS_ENABLED
Lower(text) == IF text \in {"true", "True", "TRUE"} THEN "true" ELSE text

\* int(text): the number, or "raise" (ValueError) when text is no numeral.
ParseInt(v) ==
    IF v.k = "int" THEN [raise |-> FALSE, n |-> v.n]
    ELSE IF v.s = "8080" THEN [raise |-> FALSE, n |-> 8080]
    ELSE [raise |-> TRUE, n |-> 0]

NoSsl == [cert |-> "", key |-> ""]

RunArgs(host, port, debug, ssl_context) ==
    [host |-> host, port |-> port, debug |-> debug, ssl_context |-> ssl_context]

NoRun == RunArgs("", 0, FALSE, NoSsl)

\* A variant of RunPlain that passes the computed values on.
RunPlainComputed(host, port, debug) == RunArgs(host, port, debug, NoSsl)

\* The else branch: app.run(debug=True, host='0.0.0.0', port=5500)
RunPlain(host, port, debug) == RunArgs("0.0.0.0", DefaultPort, TRUE, NoSsl)

\* The whole block: where it ends, with which app.run call or exception.
Main(e) ==
    LET port  == ParseInt(Getenv(e.PORT, IntVal(DefaultPort)))
        host  == Getenv(e.HOST, Str("0.0.0.0")).s
        debug == e.FLASK_ENV # Str("production")
        https == Lower(Getenv(e.HTTPS_ENABLED, Str("false")).s) = "true"
        ssl_cert == Getenv(e.SSL_CERT_PATH, Str("cert.pem")).s
        ssl_key  == Getenv(e.SSL_KEY_PATH, Str("key.pem")).s
    IN  IF port.raise
        THEN [pc |-> "aborted", run |-> NoRun, raised |-> "ValueError"]
        ELSE IF ~https
        THEN \* ssl_cert is not bound when os.path.exists(ssl_cert) is reached
             [pc |-> "aborted", run |-> NoRun, raised |-> "NameError"]
        ELSE IF e.certExists /\ e.keyExists
        THEN [pc |-> "listening",
              run |-> RunArgs(host, port.n, debug, [cert |-> ssl_cert, key |-> ssl_key]),
              raised |-> ""]
        ELSE [pc |-> "listening", run |-> RunPlain(host, port.n, debug),
              raised |-> ""]

BootIdle ==
    /\ bpc = "off"
    /\ env = NoEnvironment
    /\ run = NoRun
    /\ raised = ""

BootInit ==
    /\ bpc = "start"
    /\ env \in Environments
    /\ run = NoRun
    /\ raised = ""

\* `python app.py`
StartServer ==
    /\ bpc = "start"
    /\ LET end == Main(env)
       IN  /\ bpc' = end.pc
           /\ run' = end.run
           /\ raised' = end.raised
    /\ UNCHANGED << env, server, mask, test, helper, conc >>

(***************************************************************************)
(* A direct call of make_stripe_request.  hmethod, hendpoint and hdata    *)
(* are the arguments, hreply what the gateway does if it is reached and   *)
(* hout the tuple the call returned.                                       *)
(***************************************************************************)
Methods == {"GET", "get", "POST", "post", "PUT", "DELETE", "PATCH", ""}

Endpoints == { << "customers?limit=1" >>, << "payment_intents", "pi_123" >> }

HelperData == { EmptyData, [k \in {"email"} |-> Str("test@example.com")] }

NoOutcome == Outcome(NoBody, 0, Null, FALSE)

HelperIdle ==
    /\ hpc = "off"
    /\ hmethod = ""
    /\ hendpoint = << >>
    /\ hdata = EmptyData
    /\ hreply = NoReply
    /\ hout = NoOutcome

HelperInit ==
    /\ hpc = "ready"
    /\ hmethod \in Methods
    /\ hendpoint \in Endpoints
    /\ hdata \in HelperData
    /\ hreply \in GatewayReplies
    /\ hout = NoOutcome

\* make_stripe_request(method, endpoint, data) runs to its return.
CallHelper ==
    /\ hpc = "ready"
    /\ hout' = make_stripe_request(hmethod, hendpoint, hdata, hreply)
    /\ hpc' = "returned"
    /\ UNCHANGED << hmethod, hendpoint, hdata, hreply, server, mask, test, boot,
                    conc >>

(***************************************************************************)
(* Requests in flight together.  Each of the server's workers handles one *)
(* request at a time: cpc[i] is "idle", "received" or "responded",        *)
(* creq[i] the request the client sent to worker i, cgw[i] the gateway's  *)
(* reply to its call, ccalls[i] and cresp[i] what its view function did.  *)
(* ctx is what the view functions read through flask.request: the request *)
(* bound to the context they run in.                                       *)
(***************************************************************************)
Workers == 1 .. MaxInFlight

\* A variant of Context in which every worker runs in one and the same context.
ContextShared(i) == 1

\* flask.request is a proxy to the request of the worker's own context.
Context(i) == i

ConcRequests ==
    { Request("/create-payment-intent", JsonBody(a, Absent, Absent, Absent, Absent, Absent)) :
        a \in {Absent, Num(0), Str("abc"), Num(2500)} }
    \cup { Request("/create-checkout-session", NotAnObject) }
    \cup { Request("/confirm-payment", JsonBody(Absent, Absent, id, Absent, Absent, Absent)) :
             id \in {Absent, Str("pi_123")} }
    \cup { Request("/update-payment-intent",
                   JsonBody(Absent, Absent, Str("pi_123"), pm, Absent, Absent)) :
             pm \in {Absent, Str("pm_card_visa")} }
    \cup { Request("/create-customer", JsonBody(Absent, Absent, Absent, Absent, email, Absent)) :
             email \in {Str(""), Str("test@example.com")} }
    \cup { Request("/retrieve-payment-intent", WithId(Str("pi_123"))),
           Request("/list-payment-intents", NoBodySent),
           Request("/list-customers", NoBodySent),
           Request("/payment-success", WithId(Str("cs_test_1"))),
           Request("/api-status", NoBodySent),
           Request("/", NoBodySent) }

ConcReplies ==
    { Reply("http", 200, Body("object", "absent", Absent, TRUE)),
      Reply("http", 402, DeclinedBody),
      Reply("neterr", 0, NoBody) }

\* Flask's answer to a path that no view function is registered for.
NotFound == Response(404, "crash", "", Null, 0)

\* The @app.route table: the view function of a path, run on a request.
View(route, body, reply) ==
    CASE route = "/" -> index(body, reply)
      [] route = "/checkout" -> checkout(body, reply)
      [] route = "/create-checkout-session" -> create_checkout_session(body, reply)
      [] route = "/create-payment-intent" -> create_payment_intent(body, reply)
      [] route = "/update-payment-intent" -> update_payment_intent(body, reply)
      [] route = "/confirm-payment" -> confirm_payment(body, reply)
      [] route = "/create-customer" -> create_customer(body, reply)
      [] route = "/retrieve-payment-intent" -> retrieve_payment_intent(body, reply)
      [] route = "/list-payment-intents" -> list_payment_intents(body, reply)
      [] route = "/list-customers" -> list_customers(body, reply)
      [] route = "/payment-success" -> payment_success(body, reply)
      [] route = "/payment-cancel" -> payment_cancel(body, reply)
      [] route = "/api-status" -> api_status(body, reply)
      [] OTHER -> Done(NotFound, << >>)

ConcIdle ==
    /\ cpc = [i \in Workers |-> "off"]
    /\ creq = [i \in Workers |-> NoRequest]
    /\ ctx = [i \in Workers |-> NoRequest]
    /\ cgw = [i \in Workers |-> NoReply]
    /\ ccalls = [i \in Workers |-> << >>]
    /\ cresp = [i \in Workers |-> NoResponse]

ConcInit ==
    /\ cpc = [i \in Workers |-> "idle"]
    /\ creq = [i \in Workers |-> NoRequest]
    /\ ctx = [i \in Workers |-> NoRequest]
    /\ cgw = [i \in Workers |-> NoReply]
    /\ ccalls = [i \in Workers |-> << >>]
    /\ cresp = [i \in Workers |-> NoResponse]

\* A request reaches an idle worker, which binds it to its context.
Begin ==
    \E i \in Workers : \E r \in ConcRequests :
        /\ cpc[i] = "idle"
        /\ creq' = [creq EXCEPT ![i] = r]
        /\ ctx' = [ctx EXCEPT ![Context(i)] = r]
        /\ cpc' = [cpc EXCEPT ![i] = "received"]
        /\ UNCHANGED << cgw, ccalls, cresp, server, mask, test, boot, helper >>

\* A worker's view function runs to its return on the request of its
\* context, the gateway answering its call (if it makes one) with some reply.
Serve ==
    \E i \in Workers : \E reply \in ConcReplies :
        /\ cpc[i] = "received"
        /\ LET r    == ctx[Context(i)]
               done == View(r.route, r.body, reply)
           IN  /\ cresp' = [cresp EXCEPT ![i] = done.resp]
               /\ ccalls' = [ccalls EXCEPT ![i] = done.calls]
               /\ cgw' = [cgw EXCEPT ![i] =
                             IF Len(done.calls) = 0 THEN NoReply ELSE reply]
        /\ cpc' = [cpc EXCEPT ![i] = "responded"]
        /\ UNCHANGED << creq, ctx, server, mask, test, boot, helper >>

\* The response is sent and the worker's context is popped.
End ==
    \E i \in Workers :
        /\ cpc[i] = "responded"
        /\ cpc' = [cpc EXCEPT ![i] = "idle"]
        /\ creq' = [creq EXCEPT ![i] = NoRequest]
        /\ ctx' = [ctx EXCEPT ![Context(i)] = NoRequest]
        /\ cgw' = [cgw EXCEPT ![i] = NoReply]
        /\ ccalls' = [ccalls EXCEPT ![i] = << >>]
        /\ cresp' = [cresp EXCEPT ![i] = NoResponse]
        /\ UNCHANGED << server, mask, test, boot, helper >>

(***************************************************************************)
(* The specifications.                                                     *)
(***************************************************************************)
vars == << server, mask, test, boot, helper, conc >>

Init == ServerInit /\ MaskIdle /\ TestIdle /\ BootIdle /\ HelperIdle /\ ConcIdle

Next == ServerNext

Spec == Init /\ [][Next]_vars

InitMask == ServerInit /\ MaskInit /\ TestIdle /\ BootIdle /\ HelperIdle /\ ConcIdle

NextMask == LogHeaders

SpecMask == InitMask /\ [][NextMask]_vars

InitTest == ServerInit /\ MaskIdle /\ TestInit /\ BootIdle /\ HelperIdle /\ ConcIdle

NextTest ==
    \/ LoadKey
    \/ TestListCustomers
    \/ TestCreateCustomer
    \/ TestCreatePaymentIntent
    \/ TestRetrievePaymentIntent
    \/ TestExit

SpecTest == InitTest /\ [][NextTest]_vars

InitBoot == ServerInit /\ MaskIdle /\ TestIdle /\ BootInit /\ HelperIdle /\ ConcIdle

NextBoot == StartServer

SpecBoot == InitBoot /\ [][NextBoot]_vars

InitHelper ==
    ServerInit /\ MaskIdle /\ TestIdle /\ BootIdle /\ HelperInit /\ ConcIdle

NextHelper == CallHelper

SpecHelper == InitHelper /\ [][NextHelper]_vars

InitConc ==
    ServerInit /\ MaskIdle /\ TestIdle /\ BootIdle /\ HelperIdle /\ ConcInit

NextConc ==
    \/ Begin
    \/ Serve
    \/ End

SpecConc == InitConc /\ [][NextConc]_vars

(***************************************************************************)
(* Properties of the routes.                                               *)
(***************************************************************************)
AmountRoutes == {"/create-payment-intent", "/create-checkout-session"}

Responded(routes) == pc = "responded" /\ req.route \in routes

\* The JSON body is an object whose amount is absent or a number <= 0.
AmountAbsentOrNotPositive ==
    /\ req.body.obj
    /\ \/ req.body.amount = Absent
       \/ req.body.amount.k = "num" /\ req.body.amount.n <= 0

\* C1: a request to /create-payment-intent or /create-checkout-session
\* whose amount is absent or <= 0 is answered 400 {error: "Invalid amount"}
\* and make_stripe_request is not invoked.
InvalidAmountRejected ==
    (Responded(AmountRoutes) /\ AmountAbsentOrNotPositive)
        => /\ resp = JsonError(Str("Invalid amount"), 400)
           /\ Len(calls) = 0

InvalidAmountWitness ==
    /\ Responded({"/create-checkout-session"})
    /\ req.body.obj
    /\ req.body.amount = Num(0)
    /\ resp.status = 400
    /\ Len(calls) = 0

\* The key under which a route sends the minor-unit amount.
AmountKey(route) ==
    IF route = "/create-payment-intent" THEN "amount"
    ELSE "line_items[0][price_data][unit_amount]"

\* C2: for every amount > 0 with up to two decimals the minor-unit amount
\* in the gateway payload equals round(amount * 100).
MinorUnitsAreRounded ==
    (/\ Responded(AmountRoutes)
     /\ req.body.obj
     /\ req.body.amount.k = "num"
     /\ req.body.amount.n > 0)
        => /\ Len(calls) = 1
           /\ calls[1].data[AmountKey(req.route)] =
                  IntVal(FloatRound(FloatMul(ParseDecimal(req.body.amount.n), 100)))

\* The gateway answered this request's call with 402 and the declined body.
GatewayDeclined ==
    /\ Len(calls) = 1
    /\ calls[1].sent
    /\ gw = Reply("http", 402, DeclinedBody)

\* C3: when the gateway answers 402 {"error": {"message": "Your card was
\* declined."}}, every route that calls the gateway answers 402 with
\* {error: "Your card was declined."}.
DeclinePropagatedByEveryRoute ==
    (Responded(GatewayRoutes) /\ GatewayDeclined)
        => resp = JsonError(Str(DeclinedMessage), 402)

\* The 400 message of a route whose required members are missing, "" when
\* the required members of the request are all there.
RequiredMessage(r) ==
    IF r.route = "/update-payment-intent"
         /\ (r.body.payment_intent_id = Absent \/ r.body.payment_method = Absent)
    THEN "Payment intent ID and payment method required"
    ELSE IF r.route = "/confirm-payment" /\ r.body.payment_intent_id = Absent
    THEN "Payment intent ID required"
    ELSE IF r.route = "/create-customer" /\ r.body.email = Absent
    THEN "Email is required"
    ELSE ""

\* C4: /update-payment-intent without payment_intent_id or payment_method,
\* /confirm-payment without payment_intent_id and /create-customer without
\* email are answered 400 with the route's own message, without any
\* gateway call.
MissingFieldsRejected ==
    (/\ Responded({"/update-payment-intent", "/confirm-payment", "/create-customer"})
     /\ req.body.obj
     /\ RequiredMessage(req) # "")
        => /\ resp = JsonError(Str(RequiredMessage(req)), 400)
           /\ Len(calls) = 0

MissingFieldsWitness ==
    /\ Responded({"/update-payment-intent"})
    /\ req.body.obj
    /\ req.body.payment_intent_id = Str("pi_123")
    /\ req.body.payment_method = Absent
    /\ resp.status = 400

\* C5: optional members reach the gateway payload only when supplied:
\* /confirm-payment with payment_intent_id and without payment_method sends
\* a payload without the payment_method key, /create-customer with email
\* and without name sends a payload of exactly the key email.
OptionalFieldsOnlyWhenSupplied ==
    /\ (/\ Responded({"/confirm-payment"})
        /\ req.body.obj
        /\ Truthy(req.body.payment_intent_id)
        /\ req.body.payment_method = Absent)
           => /\ Len(calls) = 1
              /\ "payment_method" \notin DOMAIN calls[1].data
    /\ (/\ Responded({"/create-customer"})
        /\ req.body.obj
        /\ Truthy(req.body.email)
        /\ req.body.name = Absent)
           => /\ Len(calls) = 1
              /\ DOMAIN calls[1].data = {"email"}
    /\ (Responded({"/confirm-payment", "/create-customer"}) /\ Len(calls) = 1)
           => /\ "payment_method" \in DOMAIN calls[1].data
                    => req.body.payment_method # Absent
              /\ "name" \in DOMAIN calls[1].data => req.body.name # Absent

OptionalFieldsWitness ==
    /\ Responded({"/confirm-payment"})
    /\ req.body.payment_intent_id = Str("pi_123")
    /\ req.body.payment_method = Absent
    /\ Len(calls) = 1
    /\ calls[1].sent
    /\ DOMAIN calls[1].data = {}

(***************************************************************************)
(* Properties of the self-test.                                            *)
(***************************************************************************)
\* Step k returned status 200 and its try block did not raise.
ReturnedOk(k) ==
    /\ treplies[k].kind = "http"
    /\ treplies[k].status = 200
    /\ treplies[k].body.json = "object"
    /\ k > 1 => treplies[k].body.full

\* C6: the network steps are attempted in the order list-customers,
\* create-customer, create-payment-intent, retrieve-payment-intent, and
\* step k+1 is attempted only if step k returned 200 without raising.
StepsInOrderUntilFailure ==
    /\ Len(tsteps) <= Len(TestSteps)
    /\ tsteps = SubSeq(TestSteps, 1, Len(tsteps))
    /\ Len(treplies) = Len(tsteps)
    /\ \A k \in 1 .. Len(tsteps) :
           (k < Len(tsteps) \/ tpc \in {"create-customer", "create-payment-intent",
                                        "retrieve-payment-intent"})
               => ReturnedOk(k)
    /\ (Len(tsteps) > 0 /\ ~ReturnedOk(Len(tsteps))) => tpc \in {"returned", "exited"}

StoppedAfterForbiddenWitness ==
    /\ tpc = "exited"
    /\ tsteps = << "list-customers" >>
    /\ treplies[1].kind = "http"
    /\ treplies[1].status = 403

\* C7: the self-test exits non-zero iff some step failed: without a key no
\* network call is made and the exit status is non-zero; with a key the
\* exit status is zero iff all four network steps succeeded.
ExitStatusTellsFailure ==
    tpc = "exited" =>
        /\ ~Truthy(tkey) => (Len(tsteps) = 0 /\ texit # 0)
        /\ texit = 0 <=>
               /\ Truthy(tkey)
               /\ Len(tsteps) = Len(TestSteps)
               /\ \A k \in 1 .. Len(TestSteps) : ReturnedOk(k)

ExitAfterFailedStepWitness ==
    /\ tpc = "exited"
    /\ Len(tsteps) = 3
    /\ treplies[3].kind = "neterr"
    /\ texit = 1

(***************************************************************************)
(* Properties of the header logging.                                       *)
(***************************************************************************)
\* C8: the logged text shows no more of the key than its first 20 and
\* last 4 characters: two keys that agree on their first 20 and last 4
\* characters give the same logged Authorization line.
MaskHidesMiddleOfKey ==
    (/\ mpc = "logged"
     /\ Prefix(key, 20) = Prefix(otherKey, 20)
     /\ Suffix(key, 4) = Suffix(otherKey, 4))
        => logged = otherLogged

MaskedDifferentKeysWitness ==
    /\ mpc = "logged"
    /\ key # otherKey
    /\ Len(key) = Len(otherKey)
    /\ Prefix(key, 20) = Prefix(otherKey, 20)
    /\ Suffix(key, 4) = Suffix(otherKey, 4)
    /\ logged = otherLogged
    /\ Suffix(logged, 3) # Stars

(***************************************************************************)
(* Properties of the server's start.                                       *)
(***************************************************************************)
\* C9: for every configuration the start reaches the listening server; no
\* configuration makes the start abort.
StartNeverAborts == bpc # "aborted"

\* C10 as stated: whatever the HTTPS branch and HOST, PORT and FLASK_ENV,
\* the server is started on host 0.0.0.0, port 5500, debug on, without the
\* computed values.
StartAlwaysHardcoded ==
    bpc = "listening" => run = RunArgs("0.0.0.0", 5500, TRUE, NoSsl)

\* C10: a start without SSL context (certificate or key file missing) is on
\* host 0.0.0.0, port 5500, debug on, whatever HOST, PORT and FLASK_ENV are;
\* a start with both files present uses the configured host, port, debug
\* and the certificate and key paths.
StartHardcodedUnlessSsl ==
    bpc = "listening" =>
        IF env.certExists /\ env.keyExists
           THEN /\ run.host = (IF env.HOST = Null THEN "0.0.0.0" ELSE env.HOST.s)
                /\ run.port = (IF env.PORT = Null THEN 5500 ELSE 8080)
                /\ run.debug = (env.FLASK_ENV # Str("production"))
                /\ run.ssl_context =
                       [cert |-> IF env.SSL_CERT_PATH = Null THEN "cert.pem"
                                 ELSE env.SSL_CERT_PATH.s,
                        key  |-> IF env.SSL_KEY_PATH = Null THEN "key.pem"
                                 ELSE env.SSL_KEY_PATH.s]
           ELSE run = RunArgs("0.0.0.0", 5500, TRUE, NoSsl)

StartOverridesConfigWitness ==
    /\ bpc = "listening"
    /\ env.HOST = Str("127.0.0.1")
    /\ env.PORT = Str("8080")
    /\ env.FLASK_ENV = Str("production")
    /\ env.certExists /\ ~env.keyExists
    /\ run = RunArgs("0.0.0.0", 5500, TRUE, NoSsl)

(***************************************************************************)
(* Properties of make_stripe_request.                                      *)
(***************************************************************************)
\* The call reached the gateway, which answered with a status >= 400.
GatewayAnsweredError ==
    /\ hpc = "returned"
    /\ Upper(hmethod) \in {"GET", "POST"}
    /\ hreply.kind = "http"
    /\ hreply.status >= 400

\* The message of a gateway body: its error.message when the body is an
\* object whose error is an object with a non-empty string message, else
\* "Unknown error".
MessageOf(body) ==
    IF body.json = "object" /\ body.err = "object" /\ Truthy(body.msg)
    THEN body.msg
    ELSE Str("Unknown error")

\* C11: for a gateway response with status >= 400 and whatever body,
\* make_stripe_request returns no data, the gateway's status and a
\* non-empty error message: the body's error.message when present, else
\* "Unknown error".
GatewayErrorReported ==
    GatewayAnsweredError
        => /\ hout.data = NoBody
           /\ hout.status = hreply.status
           /\ Truthy(hout.error)
           /\ hout.error = MessageOf(hreply.body)

\* The data slot and the error slot of a returned tuple: present is not None.
DataPresent == hout.data # NoBody

ErrorPresent == hout.error # Null

\* str(e) of the exceptions a call can end in.
ExceptionTexts == {"connection refused", "failure"}

\* text is prefix followed by the text of an exception
StartsWith(text, prefix) == \E e \in ExceptionTexts : text = prefix \o e

\* C12: make_stripe_request returns a tuple (data, status, error) with
\* exactly one of data and error present; an unsupported method gives
\* (None, 400, "Unsupported HTTP method: <method>") without a network call,
\* a network failure status 500 with "Request failed: ..." and any other
\* failure status 500 with "Unexpected error: ...".
HelperOutcomeNormalized ==
    hpc = "returned" =>
        /\ DataPresent # ErrorPresent
        /\ Upper(hmethod) \notin {"GET", "POST"}
               => hout = Outcome(NoBody, 400,
                                 Str("Unsupported HTTP method: " \o hmethod), FALSE)
        /\ (Upper(hmethod) \in {"GET", "POST"} /\ hreply.kind = "neterr")
               => /\ hout.status = 500
                  /\ hout.error.k = "str"
                  /\ StartsWith(hout.error.s, "Request failed: ")
        /\ (Upper(hmethod) \in {"GET", "POST"} /\ hreply.kind = "othererr")
               => /\ hout.status = 500
                  /\ hout.error.k = "str"
                  /\ StartsWith(hout.error.s, "Unexpected error: ")

(***************************************************************************)
(* Properties of the success page.                                         *)
(***************************************************************************)
\* The lookup of the checkout session was made and failed: the gateway
\* answered with a status >= 400, or the network failed.
LookupFailed ==
    /\ Len(calls) = 1
    /\ \/ gw.kind = "neterr"
       \/ gw.kind = "http" /\ gw.status >= 400

\* The lookup returned a session: a status below 400 and a JSON object
\* with the members of a checkout session.
LookupSucceeded ==
    /\ Len(calls) = 1
    /\ gw.kind = "http"
    /\ gw.status < 400
    /\ gw.body.json = "object"
    /\ gw.body.full

\* C13: GET /payment-success answers a failed lookup of the checkout
\* session with {error: <message>} and the status the helper reported, and
\* a successful lookup with the success page, payment_id the session's
\* payment_intent.
LookupFailureAnsweredAsJsonError ==
    Responded({"/payment-success"}) =>
        /\ LookupFailed =>
               LET out == make_stripe_request(calls[1].method, calls[1].endpoint,
                                              calls[1].data, gw)
               IN  resp = JsonError(out.error, out.status)
        /\ LookupSucceeded => resp = Page("success.html", Str("pi_123"))

(***************************************************************************)
(* Properties of requests in flight together.                              *)
(***************************************************************************)
\* The request is turned down by the route's own validation.
LocallyRejected(r) ==
    /\ r.route \in JsonRoutes
    /\ r.body.obj
    /\ \/ r.route \in AmountRoutes
          /\ \/ r.body.amount = Absent
             \/ r.body.amount.k = "num" /\ r.body.amount.n <= 0
       \/ r.route = "/update-payment-intent"
          /\ (~Truthy(r.body.payment_intent_id) \/ ~Truthy(r.body.payment_method))
       \/ r.route = "/confirm-payment" /\ ~Truthy(r.body.payment_intent_id)
       \/ r.route = "/create-customer" /\ ~Truthy(r.body.email)

\* The request passes the route's validation (the routes without a JSON
\* body have none).
PassesValidation(r) ==
    \/ r.route \in GatewayRoutes \ JsonRoutes
    \/ /\ r.route \in JsonRoutes
       /\ r.body.obj
       /\ \/ r.route \in AmountRoutes
             /\ r.body.amount.k = "num" /\ r.body.amount.n > 0
          \/ r.route = "/update-payment-intent"
             /\ Truthy(r.body.payment_intent_id) /\ Truthy(r.body.payment_method)
          \/ r.route = "/confirm-payment" /\ Truthy(r.body.payment_intent_id)
          \/ r.route = "/create-customer" /\ Truthy(r.body.email)

\* C14: a request to a route that calls the gateway makes at most one
\* gateway call, exactly one when it passes the route's validation and
\* none when the validation rejects it, and its response is the one its
\* own input and its own gateway reply give, whatever other requests are
\* in flight.
OneCallAndOwnOutcome ==
    \A i \in Workers :
        (cpc[i] = "responded" /\ creq[i].route \in GatewayRoutes) =>
            /\ Len(ccalls[i]) <= 1
            /\ LocallyRejected(creq[i]) => Len(ccalls[i]) = 0
            /\ PassesValidation(creq[i])
                   => Len(ccalls[i]) = 1 /\ ccalls[i][1].sent
            /\ cresp[i] = View(creq[i].route, creq[i].body, cgw[i]).resp
            /\ \A j \in Workers :
                   (/\ cpc[j] = "responded"
                    /\ creq[j] = creq[i]
                    /\ cgw[j] = cgw[i]) => cresp[j] = cresp[i]

InterleavedRequestsWitness ==
    \E i \in Workers : \E j \in Workers :
        /\ cpc[i] = "responded"
        /\ cpc[j] = "received"
        /\ creq[i].route = "/create-payment-intent"
        /\ creq[i].body.amount = Num(2500)
        /\ creq[j].route = "/create-customer"
        /\ Len(ccalls[i]) = 1
        /\ cgw[i] = Reply("http", 402, DeclinedBody)
        /\ cresp[i] = JsonError(Str(DeclinedMessage), 402)

====
